---- MODULE Spec2Model ----
(***************************************************************************)
(* Model of src/main.py (TeraBoxBot): the per-message pipeline             *)
(* handle_message -> process_file_download -> download_to_mongodb ->       *)
(* store_file_mongodb -> upload_from_mongodb, with the chat platform, the  *)
(* metadata API, the origin host and the database as an environment that   *)
(* may answer or raise at every call.                                      *)
(*                                                                         *)
(* Sizes are counted in KiB (2 GiB itself does not fit a 32-bit integer).  *)
(* A text is the sequence of its lexical pieces, so that substring tests   *)
(* on the text are contiguous-subsequence tests on the pieces.             *)
(***************************************************************************)
EXTENDS Integers, Sequences, FiniteSets, TLC

\* ---------------------------------------------------------------- constants
\* main.py:33, 2 * 1024 * 1024 * 1024 bytes, in KiB
MAX_FILE_SIZE == 2 * 1024 * 1024
\* main.py:35, 1024 * 1024 bytes, in KiB
CHUNK_SIZE == 1024
\* main.py:326, 261120 bytes, in KiB
chunk_size == 255
\* main.py:409, the percent threshold of a progress report
PERCENT_STEP == 5
\* main.py:409, the seconds after which a progress report is due
TIME_STEP == 10

\* ------------------------------------------------------------------- bounds
\* longest body the origin host delivers in the general environment
MaxBody == 2
\* longest chunk iter_chunked hands over in the general environment
MaxChunkLen == 2
\* largest number of equal chunks in the equal-chunk environment
MaxEqChunks == 22
\* most button presses whose handle_callback tasks are in flight together
MaxTasks == 2

None == "None"
Users == {1, 2}
SettingNames == {"video_format", "auto_upload"}

\* ------------------------------------------------------------ text helpers
RECURSIVE IsPrefix(_, _)
IsPrefix(p, s) ==
    IF p = <<>> THEN TRUE
    ELSE IF s = <<>> THEN FALSE
    ELSE Head(p) = Head(s) /\ IsPrefix(Tail(p), Tail(s))

\* Python's "p in s" for strings
RECURSIVE Contains(_, _)
Contains(s, p) ==
    IF IsPrefix(p, s) THEN TRUE
    ELSE IF s = <<>> THEN FALSE
    ELSE Contains(Tail(s), p)

IsSuffix(p, s) ==
    /\ Len(p) <= Len(s)
    /\ SubSeq(s, Len(s) - Len(p) + 1, Len(s)) = p

\* str.lower() on one piece
LowerPiece(c) ==
    CASE c = "TeraBox" -> "terabox"
      [] c = "COM" -> "com"
      [] OTHER -> c

Lower(s) == [i \in 1..Len(s) |-> LowerPiece(s[i])]

\* str.strip()
RECURSIVE LStrip(_)
LStrip(s) == IF s # <<>> /\ Head(s) = " " THEN LStrip(Tail(s)) ELSE s

RECURSIVE RStrip(_)
RStrip(s) ==
    IF s # <<>> /\ s[Len(s)] = " " THEN RStrip(SubSeq(s, 1, Len(s) - 1)) ELSE s

Strip(s) == RStrip(LStrip(s))

\* ---------------------------------------------------------------- urlparse
SchemePieces == {"https:", "http:"}
NetlocEnd == {"/", "?", "#"}

\* the pieces of s before the first piece in stop
RECURSIVE TakeUntil(_, _)
TakeUntil(s, stop) ==
    IF s = <<>> \/ Head(s) \in stop THEN <<>>
    ELSE <<Head(s)>> \o TakeUntil(Tail(s), stop)

\* urllib.parse.urlparse: the scheme, then the netloc when "//" follows
urlparse(url) ==
    LET hasScheme == url # <<>> /\ Head(url) \in SchemePieces
        rest == IF hasScheme THEN Tail(url) ELSE url
        hasNetloc == rest # <<>> /\ Head(rest) = "//"
        netloc == IF hasNetloc THEN TakeUntil(Tail(rest), NetlocEnd) ELSE <<>>
    IN [scheme |-> IF hasScheme THEN Head(url) ELSE "",
        netloc |-> netloc,
        path |-> IF hasNetloc
                 THEN SubSeq(rest, Len(netloc) + 2, Len(rest))
                 ELSE rest]

valid_domains ==
    << <<"terabox", ".", "com">>,
       <<"1024", "terabox", ".", "com">>,
       <<"terabox", "app", ".", "com">> >>

\* main.py:280-287
is_valid_terabox_url(url) ==
    LET parsed == urlparse(url)
    IN \E i \in 1..Len(valid_domains) :
           Contains(Lower(parsed.netloc), valid_domains[i])

\* ----------------------------------------------------------- user settings
\* what is stored is not looked at
get_user_setting_Default(settings, user_id, setting, default) == default

\* main.py:69-71
get_user_setting(settings, user_id, setting, default) ==
    IF user_id \in DOMAIN settings /\ setting \in DOMAIN settings[user_id]
    THEN settings[user_id][setting]
    ELSE default

\* the user's entry is replaced by one that holds the written setting only
set_user_setting_Replace(settings, user_id, setting, value) ==
    [u \in DOMAIN settings \cup {user_id} |->
        IF u = user_id THEN [k \in {setting} |-> value] ELSE settings[u]]

\* main.py:73-77
set_user_setting(settings, user_id, setting, value) ==
    LET old == IF user_id \in DOMAIN settings
               THEN settings[user_id]
               ELSE [k \in {} |-> None]
        new == [k \in DOMAIN old \cup {setting} |->
                   IF k = setting THEN value ELSE old[k]]
    IN [u \in DOMAIN settings \cup {user_id} |->
           IF u = user_id THEN new ELSE settings[u]]

\* the value is written back as it was read
new_format_Same(current) == current

\* main.py:240
new_format(current) == IF current = "video" THEN "document" ELSE "video"

\* main.py:251
new_setting(current) == ~current

\* -------------------------------------------------------------- file names
\* a file name is the sequence of its pieces, the extension last
FileNames ==
    { <<"movie", ".mp4">>,
      <<"clip", "(", "1", ")", ".3gp">>,
      <<"song", ".mp3">>,
      <<"pic", ".jpg">>,
      <<"notes", " ", "v2", ".txt">> }

\* str.isalnum() on one piece
IsAlnum(c) == c \in {"movie", "clip", "1", "song", "pic", "notes", "v2"}

\* pieces that are kept although not alphanumeric; an extension is a "."
\* followed by alphanumerics
KeptPieces == {" ", ".", "_", "-", ".mp4", ".3gp", ".mp3", ".jpg", ".txt"}

\* main.py:666
safe_filename(file_name) ==
    RStrip(SelectSeq(file_name, LAMBDA c : IsAlnum(c) \/ c \in KeptPieces))

\* mimetypes.guess_type: the MIME type of the extension, None if unknown
guess_type(filename) ==
    LET ext == IF filename = <<>> THEN "" ELSE filename[Len(filename)]
    IN CASE ext = ".mp4" -> <<"video/", "mp4">>
         [] ext = ".3gp" -> <<"audio/", "3gpp">>
         [] ext = ".mp3" -> <<"audio/", "mpeg">>
         [] ext = ".jpg" -> <<"image/", "jpeg">>
         [] ext = ".txt" -> <<"text/", "plain">>
         [] OTHER -> None

\* main.py:294-304
get_file_type(filename) ==
    LET mime_type == guess_type(filename)
    IN IF mime_type # None
       THEN IF IsPrefix(<<"video/">>, mime_type) THEN "video"
            ELSE IF IsPrefix(<<"audio/">>, mime_type) THEN "audio"
            ELSE IF IsPrefix(<<"image/">>, mime_type) THEN "photo"
            ELSE "document"
       ELSE "document"

\* ------------------------------------------------------------ byte strings
\* A byte is named by its offset in the body the origin host serves, and a
\* byte string is the sequence of its maximal runs of consecutive offsets
\* (b'' is <<>>), so that strings of any length stay small and two strings
\* are equal exactly when their run sequences are.
Bytes(lo, hi) == IF lo > hi THEN <<>> ELSE <<[lo |-> lo, hi |-> hi]>>

\* len(s)
RECURSIVE BLen(_)
BLen(s) == IF s = <<>> THEN 0 ELSE (Head(s).hi - Head(s).lo + 1) + BLen(Tail(s))

\* a + b
Concat(a, b) ==
    IF a = <<>> THEN b
    ELSE IF b = <<>> THEN a
    ELSE LET x == a[Len(a)]
             y == Head(b)
         IN IF x.hi + 1 = y.lo
            THEN SubSeq(a, 1, Len(a) - 1) \o <<[lo |-> x.lo, hi |-> y.hi]>> \o Tail(b)
            ELSE a \o b

\* s[:k]
RECURSIVE Take(_, _)
Take(s, k) ==
    IF k <= 0 \/ s = <<>> THEN <<>>
    ELSE LET r == Head(s)
             n == r.hi - r.lo + 1
         IN IF n <= k THEN <<r>> \o Take(Tail(s), k - n)
            ELSE <<[lo |-> r.lo, hi |-> r.lo + k - 1]>>

\* s[k:]
RECURSIVE Drop(_, _)
Drop(s, k) ==
    IF k <= 0 \/ s = <<>> THEN s
    ELSE LET r == Head(s)
             n == r.hi - r.lo + 1
         IN IF n <= k THEN Drop(Tail(s), k - n)
            ELSE <<[lo |-> r.lo + k, hi |-> r.hi]>> \o Tail(s)

\* s[i:j]
Slice(s, i, j) == Take(Drop(s, i), j - i)

\* main.py:288-291
video_extensions ==
    {".mp4", ".avi", ".mkv", ".mov", ".wmv", ".flv", ".webm", ".m4v", ".3gp"}

is_video_file(filename) ==
    /\ filename # <<>>
    /\ LowerPiece(filename[Len(filename)]) \in video_extensions

\* main.py:625: the "Upload as" label of info_text
UploadAs(filename, video_format) ==
    IF is_video_file(filename) /\ video_format = "video" THEN "Video" ELSE "Document"

\* ---------------------------------------------------------------- database
\* the ids insert_one can hand out
ObjectIds == {"oid1"}

\* range(0, len(file_data), chunk_size), as the number of its elements
NumChunks(data) == (BLen(data) + chunk_size - 1) \div chunk_size

\* the last chunk document is not written
ChunkDocs_NoLast(id, data, k) ==
    { [files_id |-> id, n |-> j,
       data |-> Slice(data, j * chunk_size, j * chunk_size + chunk_size)] :
        j \in 0..(k - 2) }

\* the chunk documents main.py:329-337 has inserted after k iterations
ChunkDocs(id, data, k) ==
    { [files_id |-> id, n |-> j,
       data |-> Slice(data, j * chunk_size, j * chunk_size + chunk_size)] :
        j \in 0..(k - 1) }

\* main.py:357-361: the data of the chunks of file id, joined in the order of n
RECURSIVE JoinChunks(_, _)
JoinChunks(chunks, id) ==
    LET mine == { c \in chunks : c.files_id = id }
    IN IF mine = {} THEN <<>>
       ELSE LET first == CHOOSE c \in mine : \A d \in mine : c.n <= d.n
            IN Concat(first.data, JoinChunks(chunks \ {first}, id))

\* ------------------------------------------------------------------ percent
\* main.py:405: percent = (downloaded / total_size) * 100 is a double.  The
\* model keeps it exact as the numerator downloaded * 100 over the
\* denominator total_size, which is fixed during a transfer.
\* the percent of what remains instead of what has arrived
percent_of_remaining(bytes, total) == (total - bytes) * 100

percent_of(bytes, total) == bytes * 100

\* <<total_size, downloaded at the last report, downloaded>> where the exact
\* difference of the two percents is 5 and the doubles give less than 5
\* (computed with IEEE-754 doubles, e.g. (12/20)*100 - (11/20)*100 =
\* 4.999999999999993), for total_size and downloaded below 60; everywhere
\* else in that range the doubles decide as the exact values do.
RoundsBelow ==
    { <<20, 11, 12>>, <<20, 22, 23>>, <<20, 40, 41>>, <<20, 44, 45>>,
      <<20, 45, 46>>, <<20, 49, 50>>, <<20, 50, 51>>, <<40, 11, 13>>,
      <<40, 21, 23>>, <<40, 22, 24>>, <<40, 39, 41>>, <<40, 44, 46>>,
      <<40, 49, 51>> }

\* str * int: n copies of c, none when n is not positive
Repeat(c, n) == [i \in 1..n |-> c]

\* main.py:263-268, the cells between the brackets of the bar; percentage is
\* the numerator over total.  int(percentage / 5) on the double is the
\* exact floor wherever downloaded <= total_size < 60 and for the sizes of
\* the general environment (the doubles fall short of an exact multiple of
\* 5 only above 100%, first at 23/20)
progress_bar(percentage, total) ==
    LET filled == percentage \div (5 * total)
        empty == 20 - filled
    IN Repeat("filled", filled) \o Repeat("empty", empty)

\* the size is taken as known whatever the header says
SizeKnown_Always(total) == TRUE

\* main.py:404, if total_size > 0: the response carried a Content-Length
SizeKnown(total) == total > 0

\* the threshold is taken as 50 points
PercentDue_Fifty(percent, last, total) ==
    percent - last >= 50 * total

\* main.py:409, percent - last_update_percent >= 5
PercentDue(percent, last, total) ==
    \/ percent - last > PERCENT_STEP * total
    \/ /\ percent - last = PERCENT_STEP * total
       /\ <<total, last \div 100, percent \div 100>> \notin RoundsBelow

\* -------------------------------------------------------------- environment
\* the texts a user sends
MessageTexts ==
    { <<"https:", "//", "terabox", ".", "com", "/", "s", "/", "abc">>,
      <<"https:", "//", "www", ".", "1024", "terabox", ".", "com", "/", "s">>,
      <<" ", "https:", "//", "TeraBox", ".", "COM", "/", "s", "/", "abc", " ">>,
      <<"https:", "//", "terabox", "app", ".", "com", "/", "s", "/", "abc">>,
      <<"https:", "//", "evil", ".", "com", "/", "terabox", ".", "com">>,
      <<"https:", "//", "terabox", ".", "com", ".", "evil", ".", "com", "/", "s">>,
      <<"https:", "//", "not", "terabox", ".", "com", "/", "s", "/", "abc">>,
      <<"https:", "//", "user", "@", "terabox", ".", "com", ":", "443", "/", "s">>,
      <<"https:", "//", "terabox", ".", "com", "@", "evil", ".", "com", "/", "s">>,
      <<"terabox", ".", "com", "/", "s", "/", "abc">>,
      <<"hello">> }

\* the users who send messages and press buttons in the general environment
Senders == {1}

\* answers of the metadata API: the request raises, or it returns a status
\* and a JSON body whose info key is absent, empty or present, the first
\* info holding a direct link or none
ApiAnswers ==
    [error : BOOLEAN, status : {200, 500},
     info : {"absent", "empty", "present"}, link : BOOLEAN]

GoodAnswer == [error |-> FALSE, status |-> 200, info |-> "present", link |-> TRUE]

\* the check of the direct link (main.py:601) is left out
ExtractionFails_NoLinkCheck(answer) ==
    \/ answer.error
    \/ answer.status # 200
    \/ answer.info \in {"absent", "empty"}

\* main.py:586-602: the conditions under which handle_message raises
ExtractionFails(answer) ==
    \/ answer.error
    \/ answer.status # 200
    \/ answer.info \in {"absent", "empty"}
    \/ ~answer.link

\* the size guard compares against a ceiling of twice the size
TooLarge_Doubled(total) == total > 2 * MAX_FILE_SIZE

\* main.py:380
TooLarge(total) == total > MAX_FILE_SIZE

\* answers of the origin host to the streaming GET
GetOutcomes == {"ok", "status", "error"}

\* Content-Length headers of the origin host, 0 when the header is absent:
\* below, at and above the bodies delivered, at the ceiling and above it
ContentLengths == {0, 1, MaxBody, MAX_FILE_SIZE, MAX_FILE_SIZE + 1}

\* seconds that pass while the next chunk arrives
TimeSteps == {0, TIME_STEP}

\* ------------------------------------------------------------ file sizes
\* a size of kib * 1024 + rest bytes is the pair <<kib, rest>>
\* round(x, 2) of the quotient base + n / d, in hundredths: to the nearest,
\* a tie to the even one
RoundHalfEven(base, n, d) ==
    LET q == base + n \div d
        r == n % d
    IN IF 2 * r > d \/ (2 * r = d /\ q % 2 = 1) THEN q + 1 ELSE q

\* the rollover is taken at 1000 bytes
floor_log_Decimal(kib, rest) ==
    IF kib = 0 /\ rest < 1000 THEN 0
    ELSE IF kib < 1024 THEN 1
    ELSE IF kib < 1024 * 1024 THEN 2
    ELSE 3

\* main.py:275, int(math.floor(math.log(size_bytes, 1024))) for a size from
\* 1 byte to below 1 TiB (the doubles give the exact floor there)
floor_log(kib, rest) ==
    IF kib = 0 THEN 0
    ELSE IF kib < 1024 THEN 1
    ELSE IF kib < 1024 * 1024 THEN 2
    ELSE 3

\* main.py:273
size_names == <<"B", "KB", "MB", "GB">>

\* str() of a float with at most two decimals, given in hundredths:
\* <<whole part, ".", decimals>>, e.g. 1.0, 1.5, 1.05, 1.25
StrFloat(hundredths) ==
    LET f == hundredths % 100
    IN <<hundredths \div 100, ".",
         IF f % 10 = 0 THEN <<f \div 10>> ELSE <<f \div 10, f % 10>>>>

\* main.py:270-278.  size_bytes / p is exact in a double (p is a power of
\* two) and round(, 2) rounds the exact quotient; the hundredths are
\* computed in parts that fit the integers of the model
format_file_size(size) ==
    LET kib == size[1]
        rest == size[2]
        i == floor_log(kib, rest)
        s == CASE i = 0 -> rest * 100
               [] i = 1 -> RoundHalfEven(0, (kib * 1024 + rest) * 100, 1024)
               [] i = 2 -> RoundHalfEven((kib * 100) \div 1024,
                                         ((kib * 100) % 1024) * 1024 + rest * 100,
                                         1024 * 1024)
               [] i = 3 -> RoundHalfEven((kib * 100) \div (1024 * 1024),
                                         ((kib * 100) % (1024 * 1024)) * 1024
                                             + rest * 100,
                                         1024 * 1024 * 1024)
    IN IF kib = 0 /\ rest = 0 THEN <<"0B">>
       ELSE StrFloat(s) \o <<" ", size_names[i + 1]>>

\* the sizes format_file_size is applied to: around each rollover and up to
\* MAX_FILE_SIZE
Sizes ==
    { <<k, r>> : k \in {0, 1, 2, 1023, 1024, 1025, 1024 * 1024 - 1,
                        1024 * 1024, 1024 * 1024 + 1, MAX_FILE_SIZE - 1},
                r \in {0, 1, 128, 512, 1000, 1023} }
      \cup {<<MAX_FILE_SIZE, 0>>}

\* ------------------------------------------------------------------ script
Unset == "<unset>"

\* main.py:29-31, the variables the script reads
EnvNames == {"BOT_TOKEN", "MONGODB_URI", "PORT"}

\* main.py:30, the default of MONGODB_URI
DefaultUri == "mongodb+srv://...cluster0.5kufo.mongodb.net/..."

\* the environments the script is started in
Environments ==
    [BOT_TOKEN : {Unset, "", "YOUR_BOT_TOKEN", "123:abc"},
     MONGODB_URI : {Unset, "", "mongodb://localhost:27017", "mongodb://db:27017"},
     PORT : {Unset, "8080", "abc"}]

Configured ==
    [BOT_TOKEN |-> "123:abc", MONGODB_URI |-> "mongodb://db:27017", PORT |-> Unset]

\* os.getenv(name, default)
getenv(environ, name, default) ==
    IF environ[name] = Unset THEN default ELSE environ[name]

\* main.py:222-261: the tasks that run handle_callback
Tasks == 1..MaxTasks

\* main.py:107-109, 207-213, 629-630: the identifiers the bot attaches to
\* its buttons; download_<hash> stands for f"download_{hash(direct_link)}"
CallbackData ==
    {"help", "settings", "stats", "main_menu", "toggle_video_format",
     "toggle_auto_upload", "download_<hash>"}

\* main.py:229-236, 260-261: the buttons whose branch calls a command handler
CommandButtons == {"help", "stats", "settings", "main_menu"}

\* a task that has not been started
NoCallback ==
    [pc |-> "idle", user_id |-> 0, data |-> None, new |-> <<>>,
     shown |-> <<>>, fault |-> FALSE]

\* -------------------------------------------------------------------- state
VARIABLES
    user_settings,       \* self.user_settings
    pc,                  \* position of the task of the inbound message
    text,                \* handle_message: text
    user_id,             \* handle_message: user_id
    valid,               \* result of is_valid_terabox_url(text)
    outbox,              \* messages and files the chat has accepted, in order
    processing_msg,      \* what the processing message shows
    escaped,             \* an exception left handle_message
    faults,              \* the calls that have raised or failed so far
    api_requests,        \* GETs sent to the metadata API
    file_name,           \* handle_message: file_name
    upload_as,           \* the "Upload as" label of the info text shown
    get_requests,        \* streaming GETs sent to the direct link
    total_size,          \* download_to_mongodb: total_size
    body_len,            \* length of the body the origin host delivers
    src_pos,             \* bytes of the body delivered so far
    src_chunk,           \* length of the chunks the host delivers, 0: any
    downloaded,          \* download_to_mongodb: downloaded
    file_data,           \* download_to_mongodb: file_data
    last_update_percent, \* download_to_mongodb, times total_size
    last_update_time,    \* download_to_mongodb: last_update_time
    now,                 \* time.time()
    chunk_reads,         \* chunks the streaming loop has read
    reports,             \* progress reports attempted, in order
    progress_msg,        \* what the progress message shows
    fs_files,            \* db.fs.files
    fs_chunks,           \* db.fs.chunks
    db_deletes,          \* delete calls the database has carried out
    db_reads,            \* calls of retrieve_file_mongodb
    staged,              \* store_file_mongodb has inserted a document
    stored_id,           \* download_to_mongodb: file_id
    file_id,             \* process_file_download: file_id
    actual_size,         \* process_file_download: actual_size
    upload_data,         \* upload_from_mongodb: file_data
    delivered,           \* the bytes handed to the chat send call
    callbacks,           \* the tasks that run handle_callback
    size_bytes,          \* format_file_size: size_bytes, <<KiB, bytes beyond>>
    formatted,           \* what format_file_size returned
    os_environ,          \* the environment the script is started in
    script_pc,           \* position of the script
    exit_code,           \* the exit code of the process, once it has exited
    bot                  \* main: the TeraBoxBot has been constructed

vars ==
    <<user_settings, pc, text, user_id, valid, outbox,
      processing_msg, escaped, faults, api_requests, file_name, upload_as,
      get_requests,
      total_size, body_len, src_pos, src_chunk, downloaded, file_data,
      last_update_percent, last_update_time, now, chunk_reads, reports,
      progress_msg, fs_files, fs_chunks, db_deletes, db_reads, staged, stored_id,
      file_id,
      actual_size, upload_data, delivered, callbacks, size_bytes, formatted,
      os_environ, script_pc, exit_code, bot>>

settingsVars == <<user_settings>>
messageVars == <<text, user_id, valid>>
extractVars == <<api_requests, file_name, upload_as>>
streamVars == <<get_requests, total_size, body_len, src_pos, src_chunk>>
loopVars ==
    <<downloaded, file_data, last_update_percent, last_update_time, now,
      chunk_reads, reports>>
dbVars == <<fs_files, fs_chunks, db_deletes, db_reads, staged>>
resultVars == <<file_id, actual_size>>
uploadVars == <<upload_data, delivered>>
formatVars == <<size_bytes, formatted>>
scriptVars == <<os_environ, script_pc, exit_code, bot>>
\* what the pipeline of an inbound message leaves alone
asideVars == <<callbacks, formatVars, scriptVars>>
\* what a button press leaves alone
pipelineVars ==
    <<pc, messageVars, outbox, processing_msg, escaped, faults, extractVars,
      streamVars, loopVars, progress_msg, dbVars, stored_id, resultVars,
      uploadVars>>

\* main.py:29
BOT_TOKEN == getenv(os_environ, "BOT_TOKEN", "YOUR_BOT_TOKEN")

\* main.py:30
MONGODB_URI == getenv(os_environ, "MONGODB_URI", DefaultUri)

\* main.py:31, int(os.getenv('PORT', 8080)) raises on a text that is no number
PortParses == getenv(os_environ, "PORT", "8080") \in {"8080"}

\* main.py:38-44
PipelineInit ==
    /\ user_settings = [u \in {} |-> None]
    /\ pc = "idle"
    /\ text = <<>>
    /\ user_id = 0
    /\ valid = FALSE
    /\ outbox = <<>>
    /\ processing_msg = None
    /\ escaped = FALSE
    /\ faults = {}
    /\ api_requests = 0
    /\ file_name = <<>>
    /\ upload_as = ""
    /\ get_requests = 0
    /\ total_size = 0
    /\ body_len = 0
    /\ src_pos = 0
    /\ src_chunk = 0
    /\ downloaded = 0
    /\ file_data = <<>>
    /\ last_update_percent = 0
    /\ last_update_time = 0
    /\ now = 0
    /\ chunk_reads = 0
    /\ reports = <<>>
    /\ progress_msg = None
    /\ fs_files = {}
    /\ fs_chunks = {}
    /\ db_deletes = 0
    /\ db_reads = 0
    /\ staged = FALSE
    /\ stored_id = None
    /\ file_id = None
    /\ actual_size = 0
    /\ upload_data = <<>>
    /\ delivered = <<>>
    /\ callbacks = [t \in Tasks |-> NoCallback]

\* the bot runs: the script was started with its variables set
\* (main.py:29-31, 720-740) and has constructed the bot
Init ==
    /\ PipelineInit
    /\ size_bytes = <<0, 0>>
    /\ formatted = <<>>
    /\ os_environ = Configured
    /\ script_pc = "main"
    /\ exit_code = 0
    /\ bot = TRUE

\* ------------------------------------------------------------------ helpers
\* the chat accepted a message or a file of this kind
Sent(kind) == outbox' = Append(outbox, kind)

\* a call of this kind raised or failed
Fault(kind, happened) ==
    faults' = IF happened THEN faults \cup {kind} ELSE faults

\* download_to_mongodb, main.py:450-452: return None, 0; the caller then
\* finds file_id empty and ends (main.py:668-671)
DownloadFailed ==
    /\ file_id' = None
    /\ actual_size' = 0
    /\ pc' = "done"

\* ------------------------------------------------------------------ actions
\* main.py:222-258, the two toggle buttons; the confirmation the handler
\* then edits into its message changes nothing here.  answered:
\* query.answer() returned
HandleCallback(uid, data, answered) ==
    /\ pc = "idle"
    /\ data \in {"toggle_video_format", "toggle_auto_upload"}
    /\ IF ~answered
       THEN UNCHANGED user_settings
       ELSE IF data = "toggle_video_format"
       THEN LET current == get_user_setting(user_settings, uid, "video_format", "video")
            IN user_settings' =
                   set_user_setting(user_settings, uid, "video_format",
                                    new_format(current))
       ELSE LET current == get_user_setting(user_settings, uid, "auto_upload", TRUE)
            IN user_settings' =
                   set_user_setting(user_settings, uid, "auto_upload",
                                    new_setting(current))
    /\ UNCHANGED pipelineVars
    /\ UNCHANGED asideVars

\* main.py:222-227: a button is pressed and the dispatcher starts a task
\* that runs handle_callback up to query.answer(); the tasks are started
\* in the order of their numbers
CallbackPress(t, uid, data) ==
    /\ callbacks[t].pc = "idle"
    /\ \A t2 \in Tasks : t2 < t => callbacks[t2].pc # "idle"
    /\ callbacks' = [callbacks EXCEPT ![t] =
                        [@ EXCEPT !.pc = "answer", !.user_id = uid, !.data = data]]
    /\ UNCHANGED <<user_settings, pipelineVars, formatVars, scriptVars>>

\* main.py:227-261: query.answer() returns to the task and the branch of
\* the pressed button runs up to its next await.  The command handlers
\* reply through update.message (main.py:112, 157, 182, 216), which
\* python-telegram-bot sets only on an update that carries a message: on
\* the update of a button press it is None and the attribute access
\* raises.  No branch matches a download_<hash> identifier.  ok:
\* query.answer() returned
CallbackAnswered(t, ok) ==
    LET cb == callbacks[t]
    IN /\ cb.pc = "answer"
       /\ IF ~ok
          THEN /\ callbacks' = [callbacks EXCEPT ![t] =
                                   [@ EXCEPT !.pc = "raised", !.fault = TRUE]]
               /\ UNCHANGED user_settings
          ELSE IF cb.data \in CommandButtons
          THEN /\ callbacks' = [callbacks EXCEPT ![t] = [@ EXCEPT !.pc = "raised"]]
               /\ UNCHANGED user_settings
          ELSE IF cb.data = "toggle_video_format"
          THEN LET current == get_user_setting(user_settings, cb.user_id,
                                               "video_format", "video")
               IN /\ user_settings' =
                         set_user_setting(user_settings, cb.user_id,
                                          "video_format", new_format(current))
                  /\ callbacks' = [callbacks EXCEPT ![t] =
                         [@ EXCEPT !.pc = "edit", !.new = <<new_format(current)>>]]
          ELSE IF cb.data = "toggle_auto_upload"
          THEN LET current == get_user_setting(user_settings, cb.user_id,
                                               "auto_upload", TRUE)
               IN /\ user_settings' =
                         set_user_setting(user_settings, cb.user_id,
                                          "auto_upload", new_setting(current))
                  /\ callbacks' = [callbacks EXCEPT ![t] =
                         [@ EXCEPT !.pc = "edit", !.new = <<new_setting(current)>>]]
          ELSE /\ callbacks' = [callbacks EXCEPT ![t] = [@ EXCEPT !.pc = "done"]]
               /\ UNCHANGED user_settings
       /\ UNCHANGED <<pipelineVars, formatVars, scriptVars>>

\* main.py:243-247 and 254-258: the confirmation of the written value is
\* edited into the message of the button.  ok: edit_message_text returned
CallbackEdited(t, ok) ==
    /\ callbacks[t].pc = "edit"
    /\ callbacks' = [callbacks EXCEPT ![t] =
           IF ok THEN [@ EXCEPT !.pc = "done", !.shown = callbacks[t].new]
           ELSE [@ EXCEPT !.pc = "raised", !.fault = TRUE]]
    /\ UNCHANGED <<user_settings, pipelineVars, formatVars, scriptVars>>

\* main.py:562-582: the link is validated and the processing message sent.
\* ok: reply_text returned
HandleMessage(t, uid, ok) ==
    /\ pc = "idle"
    /\ text' = Strip(t)
    /\ user_id' = uid
    /\ valid' = is_valid_terabox_url(Strip(t))
    /\ IF ~is_valid_terabox_url(Strip(t))
       THEN /\ IF ok THEN Sent("invalid_url") ELSE UNCHANGED outbox
            /\ pc' = "done"
            /\ UNCHANGED processing_msg
       ELSE /\ processing_msg' = IF ok THEN "processing" ELSE processing_msg
            /\ pc' = IF ok THEN "extract" ELSE "done"
            /\ UNCHANGED outbox
    /\ escaped' = ~ok
    /\ Fault("reply", ~ok)
    /\ UNCHANGED <<settingsVars, extractVars, streamVars, loopVars, progress_msg,
                   dbVars, stored_id, resultVars, uploadVars>>
    /\ UNCHANGED asideVars

\* main.py:584-643: one GET to the metadata API, the answer parsed, the
\* processing message replaced by the extracted info, and the transfer
\* started when auto_upload is on; text is not used after the request and
\* is dropped.  ok: edit_message_text returned
Extract(answer, name, ok) ==
    /\ pc = "extract"
    /\ api_requests' = api_requests + 1
    /\ text' = <<>>
    /\ IF ExtractionFails(answer)
       THEN /\ pc' = "hm_except"
            /\ Fault("api", answer # GoodAnswer)
            /\ UNCHANGED <<file_name, upload_as, processing_msg>>
       ELSE LET auto_upload == get_user_setting(user_settings, user_id, "auto_upload", TRUE)
                video_format == get_user_setting(user_settings, user_id, "video_format", "video")
            IN /\ file_name' = name
               /\ upload_as' = IF ok THEN UploadAs(name, video_format) ELSE upload_as
               /\ processing_msg' = IF ok THEN "info" ELSE processing_msg
               /\ pc' = IF ~ok THEN "hm_except"
                        ELSE IF auto_upload THEN "download" ELSE "done"
               /\ faults' = faults \cup (IF answer # GoodAnswer THEN {"api"} ELSE {})
                                   \cup (IF ok THEN {} ELSE {"edit"})
    /\ UNCHANGED <<settingsVars, user_id, valid, outbox, escaped, streamVars,
                   loopVars, progress_msg, dbVars, stored_id, resultVars,
                   uploadVars>>
    /\ UNCHANGED asideVars

\* main.py:369-398: the streaming GET, the size guard and the progress
\* message.  cl: the Content-Length (0 when absent); len: the length of the
\* body the host will deliver; plan: the length of the chunks it delivers, 0
\* for any; ok: reply_text returned
OpenStream(outcome, cl, len, plan, ok) ==
    /\ pc = "download"
    /\ get_requests' = get_requests + 1
    /\ IF outcome # "ok"
       THEN /\ DownloadFailed
            /\ Fault("get", TRUE)
            /\ UNCHANGED <<total_size, body_len, src_chunk, outbox, progress_msg>>
       ELSE /\ total_size' = cl
            /\ body_len' = len
            /\ src_chunk' = plan
            /\ Fault("reply", ~ok)
            /\ IF TooLarge(cl)
               THEN /\ IF ok
                       THEN \* return None: the caller cannot unpack it
                            /\ Sent("too_large")
                            /\ pc' = "pfd_except"
                            /\ UNCHANGED resultVars
                       ELSE /\ DownloadFailed
                            /\ UNCHANGED outbox
                    /\ UNCHANGED progress_msg
               ELSE /\ IF ok
                       THEN /\ progress_msg' = "downloading"
                            /\ pc' = "stream"
                            /\ UNCHANGED resultVars
                       ELSE /\ DownloadFailed
                            /\ UNCHANGED progress_msg
                    /\ UNCHANGED outbox
    /\ UNCHANGED <<settingsVars, messageVars, processing_msg, escaped, extractVars,
                   src_pos, loopVars, dbVars, stored_id, uploadVars>>
    /\ UNCHANGED asideVars

\* main.py:400-431: one iteration of the streaming loop.  len: the length of
\* the chunk iter_chunked hands over; dt: the seconds that passed while it
\* arrived; ok: edit_message_text returned.  The division of main.py:405 is
\* what the test of main.py:404 guards: by a total_size of 0 it raises, and
\* the handler of main.py:450-452 ends the download
ReadChunk(len, dt, ok) ==
    /\ pc = "stream"
    /\ len \in 1..CHUNK_SIZE
    /\ src_pos + len <= body_len
    /\ src_chunk = 0 \/ len = src_chunk
    /\ LET chunk == Bytes(src_pos + 1, src_pos + len)
           percent == percent_of(downloaded + BLen(chunk), total_size)
           current_time == now + dt
           due == /\ SizeKnown(total_size)
                  /\ \/ PercentDue(percent, last_update_percent, total_size)
                     \/ current_time - last_update_time >= TIME_STEP
       IN /\ src_pos' = src_pos + len
          /\ file_data' = Concat(file_data, chunk)
          /\ downloaded' = downloaded + BLen(chunk)
          /\ chunk_reads' = chunk_reads + 1
          /\ IF SizeKnown(total_size) /\ total_size = 0
             THEN /\ DownloadFailed
                  /\ UNCHANGED <<faults, now, reports, progress_msg,
                                 last_update_percent, last_update_time>>
             ELSE /\ now' = current_time
                  /\ Fault("progress_edit", due /\ ~ok)
                  /\ UNCHANGED <<pc, resultVars>>
                  /\ IF due
                     THEN /\ reports' = Append(reports,
                                 [percent |-> percent, ok |-> ok,
                                  time |-> current_time,
                                  bar |-> progress_bar(percent, total_size)])
                          /\ IF ok
                             THEN /\ progress_msg' = "progress"
                                  /\ last_update_percent' = percent
                                  /\ last_update_time' = current_time
                             ELSE UNCHANGED <<progress_msg, last_update_percent,
                                              last_update_time>>
                     ELSE UNCHANGED <<reports, progress_msg, last_update_percent,
                                      last_update_time>>
    /\ UNCHANGED <<settingsVars, messageVars, outbox, processing_msg, escaped,
                   extractVars, get_requests, total_size, body_len, src_chunk,
                   dbVars, stored_id, uploadVars>>
    /\ UNCHANGED asideVars

\* main.py:400, 450-452: reading the body raises
StreamError ==
    /\ pc = "stream"
    /\ DownloadFailed
    /\ Fault("stream", TRUE)
    /\ UNCHANGED <<settingsVars, messageVars, outbox, processing_msg, escaped,
                   extractVars, streamVars, loopVars, progress_msg, dbVars,
                   stored_id, uploadVars>>
    /\ UNCHANGED asideVars

\* main.py:433-439: the body has ended and the progress message is set to
\* "Storing".  ok: edit_message_text returned
Finalize(ok) ==
    /\ pc = "stream"
    /\ src_pos = body_len
    /\ Fault("status_edit", ~ok)
    /\ IF ok
       THEN /\ progress_msg' = "storing"
            /\ pc' = "store"
            /\ UNCHANGED resultVars
       ELSE /\ DownloadFailed
            /\ UNCHANGED progress_msg
    /\ UNCHANGED <<settingsVars, messageVars, outbox, processing_msg, escaped,
                   extractVars, streamVars, loopVars, dbVars, stored_id,
                   uploadVars>>
    /\ UNCHANGED asideVars

\* main.py:306-343.  failAt: the insert that raises, 0 for the file document,
\* k for the k-th chunk, past the last chunk for none
store_file_mongodb(data, filename, failAt) ==
    LET id == CHOOSE o \in ObjectIds : \A f \in fs_files : f.id # o
        file_doc == [id |-> id, filename |-> filename, length |-> BLen(data)]
    IN IF failAt = 0
       THEN /\ stored_id' = None
            /\ UNCHANGED <<fs_files, fs_chunks, staged>>
       ELSE /\ fs_files' = fs_files \cup {file_doc}
            /\ staged' = TRUE
            /\ IF failAt <= NumChunks(data)
               THEN /\ fs_chunks' = fs_chunks \cup ChunkDocs(id, data, failAt - 1)
                    /\ stored_id' = None
               ELSE /\ fs_chunks' = fs_chunks \cup ChunkDocs(id, data, NumChunks(data))
                    /\ stored_id' = id

\* main.py:441
Store(failAt) ==
    /\ pc = "store"
    /\ failAt \in 0..(NumChunks(file_data) + 1)
    /\ store_file_mongodb(file_data, safe_filename(file_name), failAt)
    /\ Fault("store", failAt <= NumChunks(file_data))
    /\ pc' = "delete_progress"
    /\ UNCHANGED <<settingsVars, messageVars, outbox, processing_msg, escaped,
                   extractVars, streamVars, loopVars, progress_msg, db_deletes,
                   db_reads, resultVars, uploadVars>>
    /\ UNCHANGED asideVars

\* main.py:443-448 and 668-671: the progress message is deleted and the file
\* id returned with the size.  ok: delete_message returned
DeleteProgress(ok) ==
    /\ pc = "delete_progress"
    /\ Fault("delete_message", ~ok)
    /\ IF ok
       THEN /\ progress_msg' = "deleted"
            /\ file_id' = stored_id
            /\ actual_size' = BLen(file_data)
            /\ pc' = IF stored_id # None THEN "upload" ELSE "done"
       ELSE /\ DownloadFailed
            /\ UNCHANGED progress_msg
    /\ UNCHANGED <<settingsVars, messageVars, outbox, processing_msg, escaped,
                   extractVars, streamVars, loopVars, dbVars, stored_id,
                   uploadVars>>
    /\ UNCHANGED asideVars

\* main.py:345-367.  outcome: "ok", or "error" when a database call raises.
\* The result is <<file_data, filename>>, None when the file document is
\* missing (main.py:354) and <<None, None>> after an exception
retrieve_file_mongodb(id, outcome) ==
    IF outcome # "ok" THEN <<None, None>>
    ELSE IF \A f \in fs_files : f.id # id THEN None
    ELSE LET file_doc == CHOOSE f \in fs_files : f.id = id
         IN <<JoinChunks(fs_chunks, id), file_doc.filename>>

\* main.py:463-474: the upload message.  ok: reply_text returned
UploadStart(ok) ==
    /\ pc = "upload"
    /\ IF ok THEN Sent("uploading") ELSE UNCHANGED outbox
    /\ Fault("reply", ~ok)
    /\ pc' = IF ok THEN "retrieve" ELSE "upload_except"
    /\ UNCHANGED <<settingsVars, messageVars, processing_msg, escaped, extractVars,
                   streamVars, loopVars, progress_msg, dbVars, stored_id,
                   resultVars, uploadVars>>
    /\ UNCHANGED asideVars

\* main.py:476-479: unpacking None raises, and so does an empty file_data
Retrieve(outcome) ==
    /\ pc = "retrieve"
    /\ Fault("retrieve", outcome # "ok")
    /\ LET result == retrieve_file_mongodb(file_id, outcome)
       IN IF result = None
          THEN /\ pc' = "upload_except"
               /\ UNCHANGED upload_data
          ELSE IF result[1] = None \/ result[1] = <<>>
          THEN /\ pc' = "upload_except"
               /\ UNCHANGED upload_data
          ELSE /\ upload_data' = result[1]
               /\ pc' = "send"
    /\ db_reads' = db_reads + 1
    /\ UNCHANGED <<settingsVars, messageVars, outbox, processing_msg, escaped,
                   extractVars, streamVars, loopVars, progress_msg, fs_files,
                   fs_chunks, db_deletes, staged, stored_id, resultVars,
                   delivered>>
    /\ UNCHANGED asideVars

\* every file goes out as a document
Channel_Document(original_name, video_format) == "send_document"

\* main.py:481-523: the channel the file is sent on
Channel(original_name, video_format) ==
    LET file_type == get_file_type(original_name)
    IN IF file_type = "video" /\ video_format = "video" THEN "send_video"
       ELSE IF file_type = "audio" THEN "send_audio"
       ELSE IF file_type = "photo" THEN "send_photo"
       ELSE "send_document"

\* main.py:466, 481-523.  ok: the send call returned
Send(ok) ==
    /\ pc = "send"
    /\ Fault("send", ~ok)
    /\ LET video_format == get_user_setting(user_settings, user_id, "video_format", "video")
       IN IF ok
          THEN /\ Sent(Channel(file_name, video_format))
               /\ delivered' = upload_data
               /\ pc' = "delete_upload_msg"
          ELSE /\ pc' = "upload_except"
               /\ UNCHANGED <<outbox, delivered>>
    /\ UNCHANGED <<settingsVars, messageVars, processing_msg, escaped, extractVars,
                   streamVars, loopVars, progress_msg, dbVars, stored_id,
                   resultVars, upload_data>>
    /\ UNCHANGED asideVars

\* main.py:525-528.  ok: delete_message returned
DeleteUploadMsg(ok) ==
    /\ pc = "delete_upload_msg"
    /\ Fault("delete_message", ~ok)
    /\ pc' = IF ok THEN "cleanup" ELSE "upload_except"
    /\ UNCHANGED <<settingsVars, messageVars, outbox, processing_msg, escaped,
                   extractVars, streamVars, loopVars, progress_msg, dbVars,
                   stored_id, resultVars, uploadVars>>
    /\ UNCHANGED asideVars

\* main.py:530-532.  failAt: 0 when delete_one raises, 1 when delete_many
\* raises, 2 when neither does
Cleanup(failAt) ==
    /\ pc = "cleanup"
    /\ failAt \in 0..2
    /\ Fault("cleanup", failAt < 2)
    /\ fs_files' = IF failAt >= 1 THEN { f \in fs_files : f.id # file_id }
                   ELSE fs_files
    /\ fs_chunks' = IF failAt >= 2 THEN { c \in fs_chunks : c.files_id # file_id }
                    ELSE fs_chunks
    /\ db_deletes' = db_deletes + failAt
    /\ pc' = IF failAt = 2 THEN "success" ELSE "upload_except"
    /\ UNCHANGED <<settingsVars, messageVars, outbox, processing_msg, escaped,
                   extractVars, streamVars, loopVars, progress_msg, db_reads,
                   staged, stored_id, resultVars, uploadVars>>
    /\ UNCHANGED asideVars

\* main.py:534-550.  ok: reply_text returned
Success(ok) ==
    /\ pc = "success"
    /\ IF ok THEN Sent("success") ELSE UNCHANGED outbox
    /\ Fault("reply", ~ok)
    /\ pc' = IF ok THEN "done" ELSE "upload_except"
    /\ UNCHANGED <<settingsVars, messageVars, processing_msg, escaped, extractVars,
                   streamVars, loopVars, progress_msg, dbVars, stored_id,
                   resultVars, uploadVars>>
    /\ UNCHANGED asideVars

\* main.py:552-560, the handler of upload_from_mongodb.  ok: reply_text
\* returned; otherwise the exception goes on to process_file_download
UploadExcept(ok) ==
    /\ pc = "upload_except"
    /\ IF ok THEN Sent("upload_failed") ELSE UNCHANGED outbox
    /\ Fault("reply", ~ok)
    /\ pc' = IF ok THEN "done" ELSE "pfd_except"
    /\ UNCHANGED <<settingsVars, messageVars, processing_msg, escaped, extractVars,
                   streamVars, loopVars, progress_msg, dbVars, stored_id,
                   resultVars, uploadVars>>
    /\ UNCHANGED asideVars

\* main.py:673-681, the handler of process_file_download.  ok: reply_text
\* returned; otherwise the exception goes on to handle_message
ProcessExcept(ok) ==
    /\ pc = "pfd_except"
    /\ IF ok THEN Sent("processing_failed") ELSE UNCHANGED outbox
    /\ Fault("reply", ~ok)
    /\ pc' = IF ok THEN "done" ELSE "hm_except"
    /\ UNCHANGED <<settingsVars, messageVars, processing_msg, escaped, extractVars,
                   streamVars, loopVars, progress_msg, dbVars, stored_id,
                   resultVars, uploadVars>>
    /\ UNCHANGED asideVars

\* main.py:645-661, the handler of handle_message.  ok: edit_message_text
\* returned; otherwise the exception leaves handle_message
MessageExcept(ok) ==
    /\ pc = "hm_except"
    /\ processing_msg' = IF ok THEN "error" ELSE processing_msg
    /\ escaped' = ~ok
    /\ Fault("edit", ~ok)
    /\ pc' = "done"
    /\ UNCHANGED <<settingsVars, messageVars, outbox, extractVars, streamVars,
                   loopVars, progress_msg, dbVars, stored_id, resultVars,
                   uploadVars>>
    /\ UNCHANGED asideVars

\* ------------------------------------------------------------ specification
\* the general environment: any text, any answer of the API, of the origin
\* host, of the database and of the chat
Next ==
    \/ \E uid \in Senders, data \in {"toggle_video_format", "toggle_auto_upload"},
          answered \in BOOLEAN :
          HandleCallback(uid, data, answered)
    \/ \E t \in MessageTexts, uid \in Senders, ok \in BOOLEAN :
          HandleMessage(t, uid, ok)
    \/ \E answer \in ApiAnswers, name \in FileNames, ok \in BOOLEAN :
          Extract(answer, name, ok)
    \/ \E outcome \in GetOutcomes, cl \in ContentLengths, len \in 0..MaxBody,
          ok \in BOOLEAN :
          OpenStream(outcome, cl, len, 0, ok)
    \/ \E len \in 1..MaxChunkLen, dt \in TimeSteps, ok \in BOOLEAN :
          ReadChunk(len, dt, ok)
    \/ StreamError
    \/ \E ok \in BOOLEAN : Finalize(ok)
    \/ \E failAt \in 0..(NumChunks(file_data) + 1) : Store(failAt)
    \/ \E ok \in BOOLEAN : DeleteProgress(ok)
    \/ \E ok \in BOOLEAN : UploadStart(ok)
    \/ \E outcome \in {"ok", "error"} : Retrieve(outcome)
    \/ \E ok \in BOOLEAN : Send(ok)
    \/ \E ok \in BOOLEAN : DeleteUploadMsg(ok)
    \/ \E failAt \in 0..2 : Cleanup(failAt)
    \/ \E ok \in BOOLEAN : Success(ok)
    \/ \E ok \in BOOLEAN : UploadExcept(ok)
    \/ \E ok \in BOOLEAN : ProcessExcept(ok)
    \/ \E ok \in BOOLEAN : MessageExcept(ok)

Spec == Init /\ [][Next]_vars

\* the equal-chunk environment: every call succeeds, the header announces the
\* body, which arrives as n chunks of one length with no time passing
EqChunkLens == {1, 2}

NextEq ==
    \/ \E t \in {<<"https:", "//", "terabox", ".", "com", "/", "s", "/", "abc">>} :
          HandleMessage(t, 1, TRUE)
    \/ Extract(GoodAnswer, <<"movie", ".mp4">>, TRUE)
    \/ \E n \in 1..MaxEqChunks, c \in EqChunkLens :
          OpenStream("ok", n * c, n * c, c, TRUE)
    \/ ReadChunk(src_chunk, 0, TRUE)
    \/ Finalize(TRUE)
    \/ Store(NumChunks(file_data) + 1)
    \/ DeleteProgress(TRUE)
    \/ UploadStart(TRUE)
    \/ Retrieve("ok")
    \/ Send(TRUE)
    \/ DeleteUploadMsg(TRUE)
    \/ Cleanup(2)
    \/ Success(TRUE)

SpecEq == Init /\ [][NextEq]_vars

\* the buttons: any user presses any button, the tasks interleave at their
\* awaits, and the chat may refuse any call
NextCb ==
    \/ \E t \in Tasks, uid \in Users, data \in CallbackData :
          CallbackPress(t, uid, data)
    \/ \E t \in Tasks, ok \in BOOLEAN : CallbackAnswered(t, ok)
    \/ \E t \in Tasks, ok \in BOOLEAN : CallbackEdited(t, ok)

SpecCb == Init /\ [][NextCb]_vars

\* the large-body environment: every call succeeds and the host delivers a
\* body of any of these lengths in chunks of CHUNK_SIZE, the last one
\* shorter, with a Content-Length that is absent or right
BigBodies ==
    {0, 1, chunk_size - 1, chunk_size, chunk_size + 1, 2 * chunk_size,
     2 * chunk_size + 1, CHUNK_SIZE + 1}

Min(a, b) == IF a < b THEN a ELSE b

NextBig ==
    \/ \E t \in {<<"https:", "//", "terabox", ".", "com", "/", "s", "/", "abc">>} :
          HandleMessage(t, 1, TRUE)
    \/ \E name \in FileNames : Extract(GoodAnswer, name, TRUE)
    \/ \E len \in BigBodies :
          \E cl \in {0, Min(len, MAX_FILE_SIZE)} :
             OpenStream("ok", cl, len, 0, TRUE)
    \/ ReadChunk(Min(CHUNK_SIZE, body_len - src_pos), 0, TRUE)
    \/ Finalize(TRUE)
    \/ Store(NumChunks(file_data) + 1)
    \/ DeleteProgress(TRUE)
    \/ UploadStart(TRUE)
    \/ Retrieve("ok")
    \/ Send(TRUE)
    \/ DeleteUploadMsg(TRUE)
    \/ Cleanup(2)
    \/ Success(TRUE)
    \/ UploadExcept(TRUE)

SpecBig == Init /\ [][NextBig]_vars

\* the long-download environment: the download of main.py:369-439 from a host
\* whose body is one chunk, or one chunk longer than MAX_FILE_SIZE, and whose
\* Content-Length is absent, or as close to the body as main.py:380 lets pass
LongBodies == {CHUNK_SIZE, MAX_FILE_SIZE + CHUNK_SIZE}

NextLong ==
    \/ \E t \in {<<"https:", "//", "terabox", ".", "com", "/", "s", "/", "abc">>} :
          HandleMessage(t, 1, TRUE)
    \/ Extract(GoodAnswer, <<"movie", ".mp4">>, TRUE)
    \/ \E len \in LongBodies :
          \E cl \in {0, Min(len, MAX_FILE_SIZE)} :
             OpenStream("ok", cl, len, 0, TRUE)
    \/ ReadChunk(Min(CHUNK_SIZE, body_len - src_pos), 0, TRUE)
    \/ Finalize(TRUE)

SpecLong == Init /\ [][NextLong]_vars

\* main.py:270-278 applied to size_bytes
FormatFileSize ==
    /\ formatted' = format_file_size(size_bytes)
    /\ UNCHANGED <<user_settings, pipelineVars, callbacks, size_bytes, scriptVars>>

InitFmt ==
    /\ PipelineInit
    /\ size_bytes \in Sizes
    /\ formatted = <<>>
    /\ os_environ = Configured
    /\ script_pc = "main"
    /\ exit_code = 0
    /\ bot = TRUE

SpecFmt == InitFmt /\ [][FormatFileSize]_vars

\* main.py:1-35: the module is executed; a PORT that is no number ends the
\* process with a traceback and exit code 1
Import ==
    /\ script_pc = "import"
    /\ IF PortParses
       THEN /\ script_pc' = "guard"
            /\ UNCHANGED exit_code
       ELSE /\ script_pc' = "exited"
            /\ exit_code' = 1
    /\ UNCHANGED <<user_settings, pipelineVars, callbacks, formatVars, os_environ, bot>>

\* main.py:729-740: the guard of the script and the call of main
Guard ==
    /\ script_pc = "guard"
    /\ IF BOT_TOKEN = "" \/ BOT_TOKEN = "YOUR_BOT_TOKEN"
       THEN /\ script_pc' = "exited"
            /\ exit_code' = 1
       ELSE IF MONGODB_URI = "" \/ MONGODB_URI = "mongodb://localhost:27017"
       THEN /\ script_pc' = "exited"
            /\ exit_code' = 1
       ELSE /\ script_pc' = "construct"
            /\ UNCHANGED exit_code
    /\ UNCHANGED <<user_settings, pipelineVars, callbacks, formatVars, os_environ, bot>>

\* main.py:720-723: bot = TeraBoxBot().  ok: the constructor returned;
\* otherwise its exception is logged by main (main.py:727-728), which
\* returns
Construct(ok) ==
    /\ script_pc = "construct"
    /\ bot' = ok
    /\ script_pc' = IF ok THEN "main" ELSE "exited"
    /\ exit_code' = 0
    /\ UNCHANGED <<user_settings, pipelineVars, callbacks, formatVars, os_environ>>

\* main.py:724-728: run_polling ends, by KeyboardInterrupt or by an
\* exception that main logs, and the script ends after main
Exit ==
    /\ script_pc = "main"
    /\ script_pc' = "exited"
    /\ exit_code' = 0
    /\ UNCHANGED <<user_settings, pipelineVars, callbacks, formatVars, os_environ, bot>>

InitMain ==
    /\ PipelineInit
    /\ size_bytes = <<0, 0>>
    /\ formatted = <<>>
    /\ os_environ \in Environments
    /\ script_pc = "import"
    /\ exit_code = 0
    /\ bot = FALSE

NextMain ==
    \/ Import
    \/ Guard
    \/ \E ok \in BOOLEAN : Construct(ok)
    \/ Exit

SpecMain == InitMain /\ [][NextMain]_vars

\* ------------------------------------------------------------- observations
FailureKinds == {"invalid_url", "too_large", "upload_failed", "processing_failed"}

\* failure messages the user has received for the inbound message
FailureCount ==
    Cardinality({ i \in 1..Len(outbox) : outbox[i] \in FailureKinds })
      + (IF processing_msg = "error" THEN 1 ELSE 0)

Has(kind) == \E i \in 1..Len(outbox) : outbox[i] = kind

\* nothing of the body has been read, buffered or stored
NothingRead ==
    /\ chunk_reads = 0
    /\ src_pos = 0
    /\ file_data = <<>>
    /\ fs_files = {}
    /\ fs_chunks = {}

\* the calls by which the bot talks to the user, the file send apart
MessagingFaults == {"reply", "edit", "progress_edit", "status_edit", "delete_message"}

Returned ==
    pc \notin {"idle", "extract", "download", "stream", "store", "delete_progress"}

\* the streaming loop ran and the source delivered its whole body
BodyDelivered ==
    /\ progress_msg # None
    /\ src_pos = body_len
    /\ "stream" \notin faults

\* C2: a transfer that wrote staged data has its staged records deleted
\* exactly once by the time the pipeline ends, whether delivery succeeded
\* or the store, the retrieval or the send failed; no staged record
\* remains afterwards.
C2_StagedDeletedOnce ==
    pc = "done" /\ staged /\ faults \subseteq {"store", "retrieve", "send"} =>
        /\ fs_files = {}
        /\ fs_chunks = {}
        /\ db_deletes = 2

\* C3: whenever a transfer fails (the streaming GET, the stream, the store or
\* the send to the chat) and the chat accepts the bot's messages, the user
\* has received a failure message, and it is the upload failure message
\* exactly when the send is what failed.
C3_FailureReported ==
    /\ pc = "done"
    /\ faults \cap {"get", "stream", "store", "send"} # {}
    /\ faults \cap MessagingFaults = {}
    => /\ FailureCount >= 1
       /\ Has("upload_failed") <=> "send" \in faults

\* C4: on every failing path of handle_message (invalid link, extraction
\* error, file too large, download failure, upload failure) the user gets
\* at most one failure message and no exception leaves handle_message.
C4_SingleFailureMessage ==
    pc = "done" /\ faults \cap MessagingFaults = {} =>
        /\ FailureCount <= 1
        /\ ~escaped

\* C5: after each iteration of the streaming loop downloaded is the length
\* of the buffer and the buffer holds the chunks in arrival order, nothing
\* lost or repeated; when the source has delivered its T bytes, the size
\* returned to the caller is T.
C5_BytesConserved ==
    /\ pc = "stream" =>
           /\ downloaded = BLen(file_data)
           /\ downloaded = src_pos
           /\ file_data = Bytes(1, src_pos)
    /\ Returned /\ BodyDelivered => actual_size = body_len

\* C7: a failed edit of the progress message (a progress report or the
\* status update after the last chunk) never aborts the transfer: when
\* nothing else has failed, the bytes are stored and the file id returned.
C7_EditFailureHarmless ==
    /\ Returned
    /\ BodyDelivered
    /\ faults \subseteq {"progress_edit", "status_edit"}
    => /\ file_id # None
       /\ staged

\* the percents of successive progress reports do not decrease
ReportsMonotone ==
    \A i \in 1..Len(reports) : \A j \in i..Len(reports) :
        reports[i].percent <= reports[j].percent

\* C6: within a transfer the percent shown in successive progress reports
\* is non-decreasing, and last_update_percent never decreases.
C6_PercentMonotone ==
    [][ReportsMonotone' /\ last_update_percent' >= last_update_percent]_vars

C6_Witness ==
    /\ Len(reports) >= 2
    /\ reports[1].percent < reports[2].percent
    /\ reports[1].ok /\ reports[2].ok
    /\ last_update_percent = reports[2].percent

\* the number of chunks the equal-chunk host delivers
EqChunks == body_len \div src_chunk

\* the streaming loop of the equal-chunk environment has ended
EqLoopEnded == src_chunk > 0 /\ pc = "store"

LastReportFull ==
    /\ reports # <<>>
    /\ reports[Len(reports)].percent = 100 * total_size

\* C8 as stated: for every n >= 1, a body of known size delivered as n equal
\* chunks with every edit succeeding and no 10-second interval elapsing is
\* read in exactly n chunks and gives at least one and at most n progress
\* reports, the last of which shows 100%.
C8_LastReportFull ==
    EqLoopEnded =>
        /\ chunk_reads = EqChunks
        /\ Len(reports) >= 1
        /\ Len(reports) <= EqChunks
        /\ LastReportFull

\* C8 as amended: the same, except that the last report shows 100% when
\* every chunk advances the percent by at least 5 points (n <= 20); for
\* larger n the last chunks may stay below the threshold (n = 21 ends with
\* a last report of 95.2%).
C8_LastReportFullUpTo20 ==
    EqLoopEnded =>
        /\ chunk_reads = EqChunks
        /\ Len(reports) >= 1
        /\ Len(reports) <= EqChunks
        /\ EqChunks * PERCENT_STEP <= 100 => LastReportFull

C8_Witness ==
    /\ EqLoopEnded
    /\ EqChunks = 10
    /\ chunk_reads = 10
    /\ Len(reports) = 10
    /\ LastReportFull

\* the pieces of s after its last piece c, all of s when c does not occur
RECURSIVE AfterLast(_, _)
AfterLast(s, c) ==
    IF \E i \in 1..Len(s) : s[i] = c THEN AfterLast(Tail(s), c) ELSE s

\* the host of a netloc: without the user information and without the port
Hostname(netloc) == Lower(TakeUntil(AfterLast(netloc, "@"), {":"}))

\* the host is an allowed domain or a subdomain of one
HostAllowed(host) ==
    \E i \in 1..Len(valid_domains) :
        \/ host = valid_domains[i]
        \/ IsSuffix(<<".">> \o valid_domains[i], host)

\* C9: is_valid_terabox_url returns true exactly when the host of the parsed
\* URL is an allowed domain or a subdomain of one; a host that only contains
\* an allowed domain, or a URL that carries it in its path, is rejected.
C9_HostBased ==
    text # <<>> => (valid <=> HostAllowed(Hostname(urlparse(text).netloc)))

\* C10: when the metadata request fails, handle_message makes no second
\* request to the API, replaces the processing message with the failure
\* text, and never starts a download or an upload for that message.
C10_NoRetryNoTransfer ==
    "api" \in faults =>
        /\ api_requests = 1
        /\ get_requests = 0
        /\ NothingRead
        /\ ~staged
        /\ ~Has("uploading")
        /\ delivered = <<>>
        /\ pc \in {"hm_except", "done"}
        /\ pc = "done" /\ "edit" \notin faults => processing_msg = "error"

C10_Witness ==
    /\ "api" \in faults
    /\ pc = "done"
    /\ processing_msg = "error"
    /\ api_requests = 1

\* C11: when deleting the staged records fails after the file has been
\* delivered to the chat, and nothing else fails, the user is sent no
\* failure message and still receives the success message.
C11_CleanupFailureSwallowed ==
    pc = "done" /\ faults = {"cleanup"} =>
        /\ delivered # <<>>
        /\ FailureCount = 0
        /\ Has("success")

\* the task of a button press has ended and the chat refused none of its calls
CallbackEnded(t) ==
    /\ callbacks[t].pc \in {"done", "raised"}
    /\ ~callbacks[t].fault

\* C12: every identifier the bot attaches to a button is mapped by
\* handle_callback to its action and the action produces its response: the
\* handler returns without an exception, a toggle button shows its
\* confirmation, and a download_<hash> button starts the transfer of the
\* link.
C12_ButtonsMapped ==
    \A t \in Tasks :
        CallbackEnded(t) =>
            /\ callbacks[t].pc = "done"
            /\ callbacks[t].data \in {"toggle_video_format", "toggle_auto_upload"}
                   => callbacks[t].shown # <<>>
            /\ callbacks[t].data = "download_<hash>" => pc # "idle"

\* the blob of the transfer is in the database as download_to_mongodb
\* handed it over
WriteCompleted ==
    /\ stored_id # None
    /\ \E f \in fs_files : f.id = stored_id /\ f.length = BLen(file_data)
    /\ JoinChunks(fs_chunks, stored_id) = file_data

\* C13: a staged blob is written once, read at most once and deleted only
\* after the chat send for it has succeeded; it is never read or deleted
\* before its write has completed and never read after its deletion.
C13_StagedLifecycle ==
    [][/\ staged => fs_files' \subseteq fs_files /\ fs_chunks' \subseteq fs_chunks
       /\ db_reads' <= 1
       /\ db_reads' > db_reads =>
              /\ WriteCompleted
              /\ file_id = stored_id
              /\ db_deletes = 0
       /\ db_deletes' > db_deletes =>
              /\ WriteCompleted
              /\ db_reads = 1
              /\ delivered = file_data
              /\ delivered # <<>>
              /\ "send" \notin faults
      ]_vars

C13_Witness ==
    /\ pc = "done"
    /\ staged
    /\ db_reads = 1
    /\ db_deletes = 2
    /\ fs_files = {}
    /\ fs_chunks = {}
    /\ delivered = file_data

\* C14: when the response carries no Content-Length (total_size is 0),
\* download_to_mongodb computes no percent and attempts no progress report
\* during the whole transfer, and the transfer still runs to completion:
\* with no call failing the whole body is stored, returned with its size
\* and, unless it is empty, delivered to the chat.
C14_NoReportWithoutLength ==
    get_requests = 1 /\ total_size = 0 =>
        /\ reports = <<>>
        /\ last_update_percent = 0
        /\ progress_msg # "progress"
        /\ "progress_edit" \notin faults
        /\ Returned /\ BodyDelivered /\ faults = {} =>
               /\ chunk_reads >= 1 <=> body_len > 0
               /\ file_id # None
               /\ actual_size = body_len
               /\ JoinChunks(fs_chunks, file_id) = Bytes(1, body_len) \/ db_deletes > 0
        /\ pc = "done" /\ BodyDelivered /\ faults = {} /\ body_len > 0 =>
               /\ delivered = Bytes(1, body_len)
               /\ Has("success")

C14_Witness ==
    /\ get_requests = 1
    /\ total_size = 0
    /\ body_len = MaxBody
    /\ chunk_reads = MaxBody
    /\ reports = <<>>
    /\ pc = "done"
    /\ delivered = Bytes(1, body_len)
    /\ Has("success")

\* the button that toggles a setting
ToggleButton(setting) ==
    IF setting = "video_format" THEN "toggle_video_format" ELSE "toggle_auto_upload"

\* the tasks in which a press of the toggle of a setting by a user has
\* written its value
Toggles(uid, setting) ==
    { t \in Tasks : /\ callbacks[t].user_id = uid
                    /\ callbacks[t].data = ToggleButton(setting)
                    /\ callbacks[t].new # <<>> }

\* the default of a setting flipped k times
Flipped(setting, k) ==
    IF setting = "video_format"
    THEN (IF k % 2 = 0 THEN "video" ELSE "document")
    ELSE k % 2 = 0

\* what a reader of the setting gets
Stored(uid, setting) ==
    get_user_setting(user_settings, uid, setting,
                     IF setting = "video_format" THEN "video" ELSE TRUE)

\* C15: when the tasks of several presses of a toggle button interleave at
\* their awaits, no toggle is lost: after k presses of a user's
\* toggle_video_format (or toggle_auto_upload) have been carried out the
\* stored value is the default flipped k times, and the confirmation a task
\* shows is the value that task wrote.
C15_NoLostToggle ==
    /\ \A uid \in Users, setting \in SettingNames :
           Stored(uid, setting) = Flipped(setting, Cardinality(Toggles(uid, setting)))
    /\ \A t \in Tasks :
           /\ callbacks[t].shown # <<>> => callbacks[t].shown = callbacks[t].new
           /\ callbacks[t].pc = "done" /\ callbacks[t].new # <<>>
                  => callbacks[t].shown = callbacks[t].new

\* two presses of one toggle by one user are in flight together and both
\* have written
C15_Witness ==
    /\ Cardinality(Toggles(1, "auto_upload")) = 2
    /\ \A t \in Toggles(1, "auto_upload") : callbacks[t].pc = "edit"
    /\ Stored(1, "auto_upload") = TRUE

\* the settings the map holds: the pairs of a user and a setting name
Entries(settings) ==
    { <<u, k>> \in Users \X SettingNames :
          u \in DOMAIN settings /\ k \in DOMAIN settings[u] }

\* the step is the write of one setting of one user by task t
WritesSetting(t, uid, setting) ==
    /\ callbacks[t].pc = "answer"
    /\ callbacks'[t].pc = "edit"
    /\ callbacks[t].user_id = uid
    /\ callbacks[t].data = ToggleButton(setting)

\* the entries that a step has added, removed or given another value
Changed ==
    { e \in Users \X SettingNames :
          \/ (e \in Entries(user_settings)) # (e \in Entries(user_settings'))
          \/ /\ e \in Entries(user_settings) \cap Entries(user_settings')
             /\ user_settings'[e[1]][e[2]] # user_settings[e[1]][e[2]] }

\* C16: the settings map is keyed by user id with upsert on write and no
\* deletion: a write of one setting of one user leaves every other user's
\* settings and that user's other setting as they were; only the toggle of
\* a setting writes it, so a step that reads settings (the pipeline of a
\* message) or does neither leaves the map as it was; and no step removes
\* a user or a setting.
C16_SettingsFrame ==
    [][/\ DOMAIN user_settings \subseteq DOMAIN user_settings'
       /\ Entries(user_settings) \subseteq Entries(user_settings')
       /\ Cardinality(Changed) <= 1
       /\ \A e \in Changed :
              /\ pc = "idle" /\ pc' = "idle"
              /\ \/ \E t \in Tasks :
                       /\ WritesSetting(t, e[1], e[2])
                       /\ user_settings'[e[1]][e[2]] = callbacks'[t].new[1]
                 \/ callbacks' = callbacks
       /\ \A t \in Tasks, uid \in Users, setting \in SettingNames :
              WritesSetting(t, uid, setting) => Changed = {<<uid, setting>>}
      ]_vars

\* a user holds both settings, each written by a press of its toggle
C16_Witness ==
    /\ Entries(user_settings) = {<<1, "video_format">>, <<1, "auto_upload">>}
    /\ user_settings[1]["video_format"] = "document"
    /\ user_settings[1]["auto_upload"] = FALSE

\* the cells of a bar that are filled
FilledCells(bar) == { i \in 1..Len(bar) : bar[i] = "filled" }

\* C17: for every percent the relay passes to it, also above 100 when more
\* has been downloaded than announced, progress_bar renders a bar of
\* exactly 20 cells of which floor(percent / 5) are filled.
C17_BarWidth ==
    \A i \in 1..Len(reports) :
        /\ Len(reports[i].bar) = 20
        /\ Cardinality(FilledCells(reports[i].bar))
               = reports[i].percent \div (5 * total_size)

\* the unit of a formatted size
UnitOf(string) == string[Len(string)]

\* C18: format_file_size(0) is "0B"; a size from 1 byte to MAX_FILE_SIZE
\* gets its unit by the rollover at 1024: B below 1024, KB below 1024^2, MB
\* below 1024^3 and GB from there on, so that 1024 is formatted as 1 (written
\* 1.0) KB; and the string is a function of the byte count alone.
C18_UnitRollover ==
    formatted # <<>> =>
        /\ size_bytes = <<0, 0>> <=> formatted = <<"0B">>
        /\ size_bytes # <<0, 0>> =>
               UnitOf(formatted) =
                   IF size_bytes[1] = 0 THEN "B"
                   ELSE IF size_bytes[1] < 1024 THEN "KB"
                   ELSE IF size_bytes[1] < 1024 * 1024 THEN "MB"
                   ELSE "GB"
        /\ size_bytes = <<1, 0>> => formatted = <<1, ".", <<0>>, " ", "KB">>
        /\ formatted = format_file_size(size_bytes)

C18_Witness ==
    /\ size_bytes = <<1, 0>>
    /\ formatted = <<1, ".", <<0>>, " ", "KB">>

\* the credential or the connection string is not set in the environment
NotConfigured ==
    os_environ.BOT_TOKEN = Unset \/ os_environ.MONGODB_URI = Unset

\* both are set, to values that are neither empty nor the placeholders the
\* guard tests for, and PORT holds a number if set
WellConfigured ==
    /\ os_environ.BOT_TOKEN \notin {Unset, "", "YOUR_BOT_TOKEN"}
    /\ os_environ.MONGODB_URI \notin {Unset, "", "mongodb://localhost:27017"}
    /\ os_environ.PORT \in {Unset, "8080"}

\* C19: started as a script, the process exits with a nonzero code before
\* constructing the bot whenever BOT_TOKEN or MONGODB_URI is unset, and it
\* does not exit nonzero when both are configured.
C19_ExitOnMissingConfig ==
    script_pc \in {"construct", "main", "exited"} =>
        /\ NotConfigured => script_pc = "exited" /\ exit_code = 1 /\ ~bot
        /\ ~NotConfigured /\ WellConfigured /\ script_pc = "exited" => exit_code = 0

\* C20: between any two consecutive attempts to edit the progress message
\* of a transfer, whether or not the earlier one succeeded, the percent has
\* advanced by at least 5 points or at least 10 seconds have passed.
C20_AttemptsSpaced ==
    \A i \in 1..(Len(reports) - 1) :
        \/ reports[i + 1].percent - reports[i].percent >= PERCENT_STEP * total_size
        \/ reports[i + 1].time - reports[i].time >= TIME_STEP

\* the chat calls that send a file
SendKinds == {"send_video", "send_audio", "send_photo", "send_document"}

\* the places of the file sends among what the chat has accepted
Sends == { i \in 1..Len(outbox) : outbox[i] \in SendKinds }

\* C21: upload_from_mongodb makes exactly one chat send per delivered file,
\* on the channel that the file type and the user's video_format give:
\* send_video exactly for a video with video_format 'video', send_audio for
\* audio, send_photo for an image, send_document for everything else; and
\* the success message follows that send.
C21_OneSendByType ==
    /\ Cardinality(Sends) <= 1
    /\ delivered # <<>> <=> Cardinality(Sends) = 1
    /\ \A i \in Sends :
           LET file_type == get_file_type(file_name)
               video_format == Stored(user_id, "video_format")
           IN /\ outbox[i] = "send_video"
                     <=> file_type = "video" /\ video_format = "video"
              /\ outbox[i] = "send_audio" <=> file_type = "audio"
              /\ outbox[i] = "send_photo" <=> file_type = "photo"
              /\ outbox[i] = "send_document"
                     <=> \/ file_type = "document"
                         \/ file_type = "video" /\ video_format = "document"
    /\ \A j \in 1..Len(outbox) :
           outbox[j] = "success" => \E i \in Sends : i < j

\* a video is delivered as a document for a user who switched the format
C21_Witness ==
    /\ file_name = <<"movie", ".mp4">>
    /\ Stored(user_id, "video_format") = "document"
    /\ outbox = <<"uploading", "send_document", "success">>
    /\ delivered # <<>>

\* the extraction for the inbound message succeeded (main.py:596-602)
Extracted == file_name # <<>>

\* the sender has switched auto_upload off
AutoUploadDisabled ==
    /\ user_id \in DOMAIN user_settings
    /\ "auto_upload" \in DOMAIN user_settings[user_id]
    /\ user_settings[user_id]["auto_upload"] = FALSE

\* C22: for a valid link whose extraction succeeded, a sender with
\* auto_upload disabled is only shown the extracted info: no streaming GET
\* is opened, nothing is stored and no file is sent; with auto_upload
\* enabled (the default of a user with no stored setting)
\* process_file_download is started, exactly once.
C22_AutoUploadGate ==
    Extracted =>
        /\ AutoUploadDisabled =>
               /\ get_requests = 0
               /\ NothingRead
               /\ ~staged
               /\ outbox = <<>>
               /\ delivered = <<>>
               /\ pc \in {"done", "hm_except"}
               /\ "edit" \notin faults => pc = "done" /\ processing_msg = "info"
        /\ ~AutoUploadDisabled /\ "edit" \notin faults =>
               \/ pc = "download" /\ get_requests = 0
               \/ get_requests = 1
        /\ get_requests <= 1

C22_Witness ==
    /\ Extracted
    /\ AutoUploadDisabled
    /\ pc = "done"
    /\ processing_msg = "info"
    /\ get_requests = 0

\* C23: for every downloaded byte sequence, the empty one and lengths that
\* are and are not multiples of the storage chunk included, a store that
\* succeeded followed by a retrieval that succeeds returns exactly the stored
\* bytes in order with the stored file name, and a transfer that has ended
\* without any call failing has handed exactly those bytes to a send call
C23_RoundTrip ==
    /\ stored_id # None /\ db_deletes = 0 =>
          retrieve_file_mongodb(stored_id, "ok")
             = <<file_data, safe_filename(file_name)>>
    /\ pc = "done" /\ stored_id # None /\ faults = {} =>
          /\ Sends # {}
          /\ delivered = file_data

\* C24: at every point of every transfer the bytes accumulated in memory for
\* staging are no more than MAX_FILE_SIZE, whatever the host sends, also when
\* Content-Length is absent or smaller than the body
C24_StagingBounded ==
    /\ BLen(file_data) <= MAX_FILE_SIZE
    /\ downloaded <= MAX_FILE_SIZE

\* C25: the "Upload as" label announced before the transfer names the
\* channel the file is then sent on: when the label says Video the file is
\* sent with send_video, and when it says Document with send_document
C25_LabelNamesChannel ==
    \A i \in Sends :
       /\ upload_as = "Video" => outbox[i] = "send_video"
       /\ upload_as = "Document" => outbox[i] = "send_document"

====
